---- MODULE Spec2Model ----
(***************************************************************************)
(* Model of cargo-lock-crate-vendor (src/cargo_lock_crate_vendor/__main__.py) *)
(*                                                                         *)
(* Strings are sequences of one-character strings, so that slicing,        *)
(* splitting, path joining and ordering are computed as the code computes  *)
(* them.  A path is a sequence of segments (each a string without "/").    *)
(***************************************************************************)
EXTENDS Integers, Sequences, FiniteSets, TLC

----------------------------------------------------------------------------
(* Strings                                                                 *)

\* The characters of the model, in code-point order (Python compares str
\* values code point by code point).
Alphabet == <<" ", "(", ")", "+", "-", ".", "/", "0", "1", "2", "3", "4",
              "5", "6", "7", "8", "9", "a", "b", "c", "d", "e", "f", "g",
              "i", "l", "n", "o", "r", "s", "t", "w", "x">>

Ord(c) == CHOOSE i \in 1..Len(Alphabet) : Alphabet[i] = c

Min(a, b) == IF a < b THEN a ELSE b
Max(a, b) == IF a > b THEN a ELSE b

\* s < t for Python str values
StrLess(s, t) ==
    \E k \in 1..(Min(Len(s), Len(t)) + 1) :
        /\ \A j \in 1..(k - 1) : s[j] = t[j]
        /\ \/ k > Len(s) /\ k <= Len(t)
           \/ k <= Len(s) /\ k <= Len(t) /\ Ord(s[k]) < Ord(t[k])

\* str(n) for the lengths the model reaches
DecimalStr(n) == <<Alphabet[Ord("0") + n]>>

\* s.split(sep): every separator cuts, empty parts are kept
RECURSIVE Split(_, _)
Split(s, sep) ==
    IF \A i \in 1..Len(s) : s[i] # sep
    THEN <<s>>
    ELSE LET i == CHOOSE k \in 1..Len(s) :
                      s[k] = sep /\ \A j \in 1..(k - 1) : s[j] # sep
         IN  <<SubSeq(s, 1, i - 1)>> \o Split(SubSeq(s, i + 1, Len(s)), sep)

StartsWith(s, prefix) ==
    Len(s) >= Len(prefix) /\ SubSeq(s, 1, Len(prefix)) = prefix

IsSpace(c) == c = " "

\* Optional values: <<>> is None / a missing key, <<x>> is a present value.
None == <<>>
Some(x) == <<x>>

----------------------------------------------------------------------------
(* Paths and the file system                                               *)

\* The segments a path string names: "/" separates, empty segments (a
\* doubled or trailing separator) name nothing.
Segments(s) == SelectSeq(Split(s, "/"), LAMBDA part : part # <<>>)

\* os.path.join(base, s) as the path the system resolves it to: a component
\* starting with "/" discards everything before it.
Join(base, s) ==
    IF s # <<>> /\ s[1] = "/" THEN Segments(s) ELSE base \o Segments(s)

RECURSIVE JoinAll(_, _)
JoinAll(base, parts) ==
    IF parts = <<>> THEN base
    ELSE JoinAll(Join(base, Head(parts)), Tail(parts))

Prefixes(p) == { SubSeq(p, 1, n) : n \in 1..Len(p) }

IsUnder(p, dir) == Len(p) > Len(dir) /\ SubSeq(p, 1, Len(dir)) = dir

Basename(p) == p[Len(p)]
Dirname(p) == SubSeq(p, 1, Len(p) - 1)

\* A file system: the regular files with their content, and the directories.
EmptyFS == [files |-> <<>>, dirs |-> {}]

FilesOf(fs) == DOMAIN fs.files

\* os.makedirs(d, exist_ok=True): fails when a file is in the way
\* (the directories above the file are made before it fails)
MakedirsOk(fs, d) == \A q \in Prefixes(d) : q \notin FilesOf(fs)
Makedirs(fs, d) ==
    [fs EXCEPT !.dirs = @ \cup { q \in Prefixes(d) : MakedirsOk(fs, q) }]

\* open(p, "w").write(content): fails when p is a directory and when the
\* directory of p does not exist (the root directory does)
WriteOk(fs, p) ==
    /\ p # <<>>
    /\ p \notin fs.dirs
    /\ Len(p) = 1 \/ Dirname(p) \in fs.dirs

\* The string names a directory: it is empty or ends in a separator, and
\* open of a path whose last component it is fails
IsDirName(s) == s = <<>> \/ s[Len(s)] = "/"
WriteFile(fs, p, content) ==
    [fs EXCEPT !.files = [q \in (DOMAIN @) \cup {p} |->
                              IF q = p THEN content ELSE @[q]]]

----------------------------------------------------------------------------
(* Data model                                                              *)

Crate(n, v) == [name |-> n, version |-> v]

Index(n, c) == [name |-> n, content |-> c]

\* (c.name, c.version) < (d.name, d.version), the sort key of async_main
KeyLess(c, d) ==
    \/ StrLess(c.name, d.name)
    \/ c.name = d.name /\ StrLess(c.version, d.version)

\* the crates in descending order (reverse=True)
RECURSIVE SortedCratesReversed(_)
SortedCratesReversed(S) ==
    IF S = {} THEN <<>>
    ELSE LET m == CHOOSE x \in S : \A y \in S \ {x} : KeyLess(y, x)
         IN  <<m>> \o SortedCratesReversed(S \ {m})

\* sorted(crates, key=lambda c: (c.name, c.version))
RECURSIVE SortedCrates(_)
SortedCrates(S) ==
    IF S = {} THEN <<>>
    ELSE LET m == CHOOSE x \in S : \A y \in S \ {x} : KeyLess(x, y)
         IN  <<m>> \o SortedCrates(S \ {m})

Range(q) == { q[i] : i \in 1..Len(q) }

Last(q) == q[Len(q)]

\* The marker file name of a saved archive
DOWNLOAD == <<"d", "o", "w", "n", "l", "o", "a", "d">>

\* os.path.join on two relative strings, as a string (Index.dir)
StrJoin(a, b) ==
    IF b # <<>> /\ b[1] = "/" THEN b
    ELSE IF a = <<>> \/ a[Len(a)] = "/" THEN a \o b
    ELSE a \o <<"/">> \o b

----------------------------------------------------------------------------
(* DirectoryLayout                                                         *)

\* a layout that gives a name of three characters the directory of its length
\* alone, as it gives the shorter names
get_directory_short3(crate_name) ==
    IF Len(crate_name) <= 3 THEN <<DecimalStr(Len(crate_name))>>
    ELSE <<SubSeq(crate_name, 1, 2), SubSeq(crate_name, 3, 4)>>

\* a layout whose second directory is all that follows the first two
\* characters of the name
get_directory_rest(crate_name) ==
    IF Len(crate_name) <= 2 THEN <<DecimalStr(Len(crate_name))>>
    ELSE IF Len(crate_name) = 3
         THEN <<DecimalStr(Len(crate_name)), <<crate_name[1]>>>>
         ELSE <<SubSeq(crate_name, 1, 2), SubSeq(crate_name, 3, Len(crate_name))>>

\* get_directory: one component (a str) or two (a tuple)
get_directory(crate_name) ==
    IF Len(crate_name) <= 2 THEN <<DecimalStr(Len(crate_name))>>
    ELSE IF Len(crate_name) = 3
         THEN <<DecimalStr(Len(crate_name)), <<crate_name[1]>>>>
         ELSE <<SubSeq(crate_name, 1, 2), SubSeq(crate_name, 3, 4)>>

\* Index.dir
Index_dir(name) ==
    LET subdir == get_directory(name)
    IN  IF Len(subdir) = 1 THEN subdir[1]
        ELSE StrJoin(subdir[1], subdir[2])

----------------------------------------------------------------------------
(* Store                                                                   *)

\* The file save_crate writes for a crate
CratePath(crate, output_dir) ==
    Join(JoinAll(output_dir, <<crate.name, crate.version>>), DOWNLOAD)

\* save_crate: [ok, fs]; not ok is an exception of makedirs or open
save_crate(fs, crate, content, output_dir) ==
    LET odir == JoinAll(output_dir, <<crate.name, crate.version>>)
        fpath == Join(odir, DOWNLOAD)
    IN  IF ~MakedirsOk(fs, odir) THEN [ok |-> FALSE, fs |-> Makedirs(fs, odir)]
        ELSE IF ~WriteOk(Makedirs(fs, odir), fpath)
             THEN [ok |-> FALSE, fs |-> Makedirs(fs, odir)]
             ELSE [ok |-> TRUE,
                   fs |-> WriteFile(Makedirs(fs, odir), fpath, content)]

\* The file save_index writes for a name
IndexPath(name, output_dir) ==
    Join(Join(output_dir, Index_dir(name)), name)

\* save_index: [ok, fs]
save_index(fs, index, output_dir) ==
    LET odir == Join(output_dir, Index_dir(index.name))
        fpath == Join(odir, index.name)
    IN  IF ~MakedirsOk(fs, odir) THEN [ok |-> FALSE, fs |-> Makedirs(fs, odir)]
        ELSE IF IsDirName(index.name) \/ ~WriteOk(Makedirs(fs, odir), fpath)
             THEN [ok |-> FALSE, fs |-> Makedirs(fs, odir)]
             ELSE [ok |-> TRUE,
                   fs |-> WriteFile(Makedirs(fs, odir), fpath, index.content)]

----------------------------------------------------------------------------
(* CacheScanner                                                            *)

\* get_downloaded_crates: os.walk(dir), every file named "download"
get_downloaded_crates(fs, dir) ==
    { Crate(Basename(Dirname(Dirname(fpath))), Basename(Dirname(fpath))) :
        fpath \in { p \in FilesOf(fs) : IsUnder(p, dir) /\ Basename(p) = DOWNLOAD } }

\* What read() and readlines() of a file opened with open(fpath) give.  A
\* file is a sequence of lines, and a line of text has the field eol, "LF"
\* or "CRLF"; the text mode of Python turns every line end into LF.
\* (open(fpath, "w") writes LF as os.linesep, which is LF, and CR as it is.)
TextRead(body) ==
    [k \in 1..Len(body) |->
        IF "eol" \in DOMAIN body[k] THEN [body[k] EXCEPT !.eol = "LF"] ELSE body[k]]

\* get_downloaded_indices: os.walk(dir), every file
get_downloaded_indices(fs, dir) ==
    { Index(Basename(p), TextRead(fs.files[p])) :
        p \in { q \in FilesOf(fs) : IsUnder(q, dir) } }

----------------------------------------------------------------------------
(* File and response bodies                                                *)

\* A body is a sequence of lines; a line is [kind, data, eol]:
\*   "json"  a JSON object whose "vers" field is data
\*   "text"  a line that is not JSON (the body of an error response)
\*   "crate" the bytes of the archive that data names (no eol)
\* eol is how the line ends: "LF" or "CRLF"
JsonLine(v) == [kind |-> "json", data |-> v, eol |-> "LF"]
IndexBody(versions) == [i \in 1..Len(versions) |-> JsonLine(versions[i])]
ErrorBody == <<[kind |-> "text", data |-> <<"4", "0", "4">>, eol |-> "LF"]>>

\* The document of versions with lines that end in CR LF
IndexBodyCRLF(versions) ==
    [i \in 1..Len(versions) |-> [JsonLine(versions[i]) EXCEPT !.eol = "CRLF"]]

CrateBody(crate) ==
    <<[kind |-> "crate", data |-> crate.name \o <<"-">> \o crate.version]>>

----------------------------------------------------------------------------
(* LockParser                                                              *)

\* A lock document is [package |-> None or Some(records)]; a record is
\* [name, version, source |-> None or Some(string), dependencies |-> strings].
GitPlus == <<"g", "i", "t", "+">>

\* CRATE_RE.match(dep): [^\s]+(\s.+)* matched at the start of dep
CRATE_RE_match(dep) == dep # <<>> /\ ~IsSpace(dep[1])

\* a filter that skips the records without a source only
SurvivesGit(rec) ==
    /\ rec.source # None
    /\ rec.source[1] # <<>>

\* lines 48-51: the records that are not skipped
Survives(rec) ==
    /\ rec.source # None
    /\ rec.source[1] # <<>>
    /\ ~StartsWith(rec.source[1], GitPlus)

\* a split that takes the last part of the string for the version
DepCratesLast(rec) ==
    { Crate(Split(dep, " ")[1], Last(Split(dep, " "))) :
        dep \in { d \in Range(rec.dependencies) : Len(Split(d, " ")) > 1 } }

\* lines 56-71: the crates the dependency strings of a record add
DepCrates(rec) ==
    { Crate(Split(dep, " ")[1], Split(dep, " ")[2]) :
        dep \in { d \in Range(rec.dependencies) : Len(Split(d, " ")) > 1 } }

\* parse_cargo_lock: [ok, crates]; not ok is an exception (KeyError on a
\* missing key, ValueError on a dependency the expression does not match)
parse_cargo_lock(doc) ==
    IF doc.package = None THEN [ok |-> FALSE, crates |-> {}]
    ELSE LET recs == { r \in Range(doc.package[1]) : Survives(r) }
             raises(r) == \/ r.name = None
                          \/ r.version = None
                          \/ \E d \in Range(r.dependencies) : ~CRATE_RE_match(d)
         IN  IF \E r \in recs : raises(r) THEN [ok |-> FALSE, crates |-> {}]
             ELSE [ok |-> TRUE,
                   crates |-> UNION { {Crate(r.name[1], r.version[1])} \cup DepCrates(r)
                                        : r \in recs }]

----------------------------------------------------------------------------
(* RegistryClient                                                          *)

\* The remote side is [index |-> [name -> None or Some(body)], crates |-> the
\* crates whose archive the archive host has].  A GET either ends in a
\* transport exception or returns the response; the code reads the body of
\* every response, whatever its status.
Raised == [ok |-> FALSE, body |-> <<>>]
Returned(b) == [ok |-> TRUE, body |-> b]

HttpGetIndex(remote, name) ==
    { Raised,
      Returned(IF name \in DOMAIN remote.index /\ remote.index[name] # None
               THEN remote.index[name][1] ELSE ErrorBody) }

HttpGetCrate(remote, crate) ==
    { Raised,
      Returned(IF crate \in remote.crates THEN CrateBody(crate) ELSE ErrorBody) }

\* open(fpath).read() of the mirror: raises when fpath is not a file
ReadFile(fs, fpath) ==
    IF fpath \in FilesOf(fs) THEN Returned(TextRead(fs.files[fpath])) ELSE Raised

\* The file of crate_name in a local registry (lines 143-147, 175-179)
RegistryPath(crate_name, registry) ==
    Join(JoinAll(registry, get_directory(crate_name)), crate_name)

\* get_index: the outcomes [ok, body]; registry is None or Some(path)
get_index(fs, remote, crate, registry) ==
    IF registry = None THEN HttpGetIndex(remote, crate.name)
    ELSE { ReadFile(fs, RegistryPath(crate.name, registry[1])) }

\* the first max_previous lines, lines[:max_previous]
FirstLines(lines, max_previous) ==
    SubSeq(lines, 1, Min(Len(lines), max_previous))

\* lines[max(len(lines) - max_previous, 0):]
LastLines(lines, max_previous) ==
    SubSeq(lines, Max(Len(lines) - max_previous, 0) + 1, Len(lines))

\* lines 170-173 and 183-186: json.loads raises on a line that is not JSON
Versions(resp, max_previous) ==
    LET tail == LastLines(resp.body, max_previous)
    IN  IF ~resp.ok \/ \E i \in 1..Len(tail) : tail[i].kind # "json"
        THEN [ok |-> FALSE, versions |-> <<>>]
        ELSE [ok |-> TRUE, versions |-> [i \in 1..Len(tail) |-> tail[i].data]]

\* get_crate_versions: the outcomes [ok, versions]
get_crate_versions(fs, remote, crate_name, max_previous, registry) ==
    IF registry = None
    THEN { Versions(resp, max_previous) : resp \in HttpGetIndex(remote, crate_name) }
    ELSE { Versions(ReadFile(fs, RegistryPath(crate_name, registry[1])), max_previous) }

\* download_crate: the outcomes [ok, body]
download_crate(remote, crate) == HttpGetCrate(remote, crate)

----------------------------------------------------------------------------
(* Inputs of the model                                                     *)

\* How many times the program is run, one run after the other
MaxRuns == 2

\* max_previous of --all (line 285)
AllVersions == 65536

s_a == <<"a">>
s_ab == <<"a", "b">>
s_foo == <<"f", "o", "o">>
s_empty == <<>>
v_05 == <<"0", ".", "5">>
v_10 == <<"1", ".", "0">>
v_20 == <<"2", ".", "0">>
v_100 == <<"1", ".", "0", ".", "0">>
src_registry == <<"r", "e", "g", "i", "s", "t", "r", "y", "+", "x">>
src_git == GitPlus \o <<"x">>

\* The working directory and the directories of the command line
Cwd == <<<<"w">>>>
OutputDir == Join(Cwd, <<"c", "r", "a", "t", "e", "s">>)
IndexOutputDir == Join(Cwd, <<"i", "n", "d", "e", "x">>)
RegistryDir == Join(Cwd, <<"r", "e", "g">>)

Record(n, v, src, deps) ==
    [name |-> n, version |-> v, source |-> src, dependencies |-> deps]
Doc(recs) == [package |-> Some(recs)]

\* one package foo 1.0.0 from the registry, no dependencies
DocFoo == Doc(<<Record(Some(s_foo), Some(v_100), Some(src_registry), <<>>)>>)
\* two versions of one name
DocTwoVersions ==
    Doc(<<Record(Some(s_a), Some(v_10), Some(src_registry), <<>>),
          Record(Some(s_a), Some(v_20), Some(src_registry), <<>>)>>)
\* dependencies with and without a version, a workspace and a git record
DocDeps ==
    Doc(<<Record(Some(s_ab), Some(v_10), Some(src_registry),
                 <<s_a \o <<" ">> \o v_10, s_foo>>),
          Record(Some(s_foo), Some(v_100), None, <<s_a \o <<" ">> \o v_20>>),
          Record(Some(s_a), Some(v_05), Some(src_git), <<>>)>>)
\* a dependency string that ends in a space
DocTrailingSpace ==
    Doc(<<Record(Some(s_ab), Some(v_10), Some(src_registry), <<s_a \o <<" ">>>>)>>)
\* a dependency string that starts with a space
DocLeadingSpace ==
    Doc(<<Record(Some(s_ab), Some(v_10), Some(src_registry), <<<<" ">> \o s_a>>)>>)
\* a surviving record without a version
DocNoVersion == Doc(<<Record(Some(s_ab), None, Some(src_registry), <<>>)>>)
\* no package collection
DocNoPackage == [package |-> None]

Docs == {DocFoo, DocTwoVersions, DocDeps, DocTrailingSpace, DocLeadingSpace,
         DocNoVersion, DocNoPackage}

\* The command lines: --input, or --name with --version, each with the
\* expansion options and with or without --registry
Inputs ==
    { [input |-> Some(d), name |-> None, version |-> None] : d \in Docs }
    \cup { [input |-> None, name |-> Some(s_foo), version |-> Some(v_100)],
           [input |-> None, name |-> Some(s_a), version |-> Some(s_empty)] }

Expansions ==
    { [all |-> FALSE, max_previous |-> None],
      [all |-> TRUE, max_previous |-> None],
      [all |-> FALSE, max_previous |-> Some(1)],
      [all |-> FALSE, max_previous |-> Some(2)] }

Configs ==
    { [input |-> inp.input, name |-> inp.name, version |-> inp.version,
       all |-> e.all, max_previous |-> e.max_previous, registry |-> r] :
        inp \in Inputs, e \in Expansions, r \in {None, Some(RegistryDir)} }

\* The remote registry: every name of the inputs published, or a missing
\* index document and a missing archive
RemoteFull ==
    [index |-> (s_a :> Some(IndexBody(<<v_05, v_10, v_20>>)))
               @@ (s_ab :> Some(IndexBody(<<v_10>>)))
               @@ (s_foo :> Some(IndexBody(<<v_05, v_100>>))),
     crates |-> {Crate(s_a, v_05), Crate(s_a, v_10), Crate(s_a, v_20),
                 Crate(s_ab, v_10), Crate(s_foo, v_05), Crate(s_foo, v_100)}]
RemotePartial ==
    [index |-> (s_a :> Some(IndexBody(<<v_05, v_10, v_20>>)))
               @@ (s_ab :> None)
               @@ (s_foo :> None),
     crates |-> {Crate(s_a, v_05), Crate(s_a, v_10), Crate(s_ab, v_10),
                 Crate(s_foo, v_05)}]
Remotes == {RemoteFull, RemotePartial}

RECURSIVE SaveIndices(_, _, _)
SaveIndices(fs, indices, dir) ==
    IF indices = {} THEN fs
    ELSE LET ix == CHOOSE x \in indices : TRUE
         IN  SaveIndices(save_index(fs, ix, dir).fs, indices \ {ix}, dir)

RECURSIVE SaveCrates(_, _, _)
SaveCrates(fs, cs, dir) ==
    IF cs = {} THEN fs
    ELSE LET c == CHOOSE x \in cs : TRUE
         IN  SaveCrates(save_crate(fs, c, CrateBody(c), dir).fs, cs \ {c}, dir)

\* The local registry of a remote: the documents it has, in the layout of
\* the registry
MirrorOf(remote, fs) ==
    SaveIndices(fs, { Index(n, remote.index[n][1]) :
                        n \in { m \in DOMAIN remote.index : remote.index[m] # None } },
                RegistryDir)

\* The caches before the first run: empty, or left by earlier runs
InitialCaches ==
    { EmptyFS,
      SaveCrates(SaveIndices(EmptyFS, {Index(s_a, IndexBody(<<v_05, v_10>>))},
                             IndexOutputDir),
                 {Crate(s_a, v_10), Crate(s_foo, v_100)}, OutputDir),
      SaveCrates(EmptyFS, {Crate(s_a, v_10)}, OutputDir) }

----------------------------------------------------------------------------
(* SyncEngine: async_main                                                  *)

VARIABLES
    cfg,                 \* the parsed command line
    remote,              \* what the registry and the archive host serve
    fs,                  \* the files on disk
    pc,                  \* the step of async_main: scan, load, index, expand, archive
    status,              \* running, done, or aborted (an exception left async_main)
    downloaded_crates,   \* line 254
    downloaded_indices,  \* line 255
    crates,              \* the list crates (lines 272, 301)
    extra_crates,        \* line 291
    i,                   \* the position of the running for loop in crates
    log,                 \* what the run did, in order
    history              \* the runs before this one

vars == <<cfg, remote, fs, pc, status, downloaded_crates, downloaded_indices,
          crates, extra_crates, i, log, history>>

Ev(kind, crate) == [ev |-> kind, crate |-> crate]

\* line 282 and lines 283-289: None, or Some(max_previous)
MaxPrevious(c) ==
    IF c.all THEN Some(AllVersions)
    ELSE IF c.max_previous # None /\ c.max_previous[1] # 0 THEN c.max_previous
    ELSE None

Init ==
    /\ cfg \in Configs
    /\ remote \in Remotes
    /\ \E cache \in InitialCaches :
          fs = IF cfg.registry = None THEN cache ELSE MirrorOf(remote, cache)
    /\ pc = "scan"
    /\ status = "running"
    /\ downloaded_crates = {}
    /\ downloaded_indices = {}
    /\ crates = <<>>
    /\ extra_crates = {}
    /\ i = 1
    /\ log = <<>>
    /\ history = <<>>

\* lines 244-258: make the output directories, scan the two caches
ScanCaches ==
    /\ status = "running" /\ pc = "scan"
    /\ LET made == Makedirs(Makedirs(fs, OutputDir), IndexOutputDir)
       IN  /\ fs' = made
           /\ IF MakedirsOk(fs, OutputDir) /\ MakedirsOk(fs, IndexOutputDir)
              THEN /\ downloaded_crates' = get_downloaded_crates(made, OutputDir)
                   /\ downloaded_indices' = get_downloaded_indices(made, IndexOutputDir)
                   /\ pc' = "load"
                   /\ UNCHANGED status
              ELSE /\ status' = "aborted"
                   /\ UNCHANGED <<downloaded_crates, downloaded_indices, pc>>
    /\ UNCHANGED <<cfg, remote, crates, extra_crates, i, log, history>>

\* lines 260-270: the crates of the command line, [ok, crates]
WantedCrates(c) ==
    IF c.input # None THEN parse_cargo_lock(c.input[1])
    ELSE IF c.name # None /\ c.version # None
         THEN [ok |-> TRUE, crates |-> {Crate(c.name[1], c.version[1])}]
         ELSE [ok |-> TRUE, crates |-> {}]

\* a load step that takes the crates of a lock file that failed to parse
\* to be none and goes on
LoadCratesLenient ==
    /\ status = "running" /\ pc = "load"
    /\ crates' = SortedCrates(WantedCrates(cfg).crates)
    /\ pc' = "index"
    /\ i' = 1
    /\ UNCHANGED <<cfg, remote, fs, status, downloaded_crates, downloaded_indices,
                   extra_crates, log, history>>

\* lines 260-272
LoadCrates ==
    /\ status = "running" /\ pc = "load"
    /\ LET w == WantedCrates(cfg)
       IN  IF w.ok
           THEN /\ crates' = SortedCrates(w.crates)
                /\ pc' = "index"
                /\ i' = 1
                /\ UNCHANGED status
           ELSE /\ status' = "aborted"
                /\ UNCHANGED <<crates, pc, i>>
    /\ UNCHANGED <<cfg, remote, fs, downloaded_crates, downloaded_indices,
                   extra_crates, log, history>>

\* line 275
IndexDownloaded(indices, crate) == \E ix \in indices : ix.name = crate.name

\* an index loop that also runs between the passes of the archive loop
IndexLoopInterleaved == pc \in {"index", "archive"} /\ i <= Len(crates)

\* line 274: the index loop has a crate left
IndexLoopRunning == pc = "index" /\ i <= Len(crates)

\* lines 274-280, one pass of the loop
IndexStep ==
    /\ status = "running" /\ IndexLoopRunning
    /\ LET crate == crates[i]
       IN  IF IndexDownloaded(downloaded_indices, crate)
           THEN /\ log' = Append(log, Ev("index_skip", crate))
                /\ i' = i + 1
                /\ UNCHANGED <<fs, status>>
           ELSE \E r \in get_index(fs, remote, crate, cfg.registry) :
                  IF ~r.ok
                  THEN /\ log' = Append(log, Ev("index_fetch", crate))
                       /\ status' = "aborted"
                       /\ UNCHANGED <<fs, i>>
                  ELSE LET sv == save_index(fs, Index(crate.name, r.body), IndexOutputDir)
                       IN  /\ fs' = sv.fs
                           /\ IF sv.ok
                              THEN /\ log' = log \o <<Ev("index_fetch", crate),
                                                      Ev("index_save", crate)>>
                                   /\ i' = i + 1
                                   /\ UNCHANGED status
                              ELSE /\ log' = Append(log, Ev("index_fetch", crate))
                                   /\ status' = "aborted"
                                   /\ UNCHANGED i
    /\ UNCHANGED <<cfg, remote, pc, downloaded_crates, downloaded_indices,
                   crates, extra_crates, history>>

\* lines 282-291 and, without expansion, line 301
AfterIndexLoop ==
    /\ status = "running" /\ pc = "index" /\ i > Len(crates)
    /\ IF MaxPrevious(cfg) # None
       THEN /\ pc' = "expand"
            /\ extra_crates' = {}
            /\ UNCHANGED crates
       ELSE /\ pc' = "archive"
            /\ crates' = SortedCrates(Range(crates))
            /\ UNCHANGED extra_crates
    /\ i' = 1
    /\ UNCHANGED <<cfg, remote, fs, status, downloaded_crates, downloaded_indices,
                   log, history>>

\* lines 292-296, one pass of the loop
ExpandStep ==
    /\ status = "running" /\ pc = "expand" /\ i <= Len(crates)
    /\ LET crate == crates[i]
       IN  \E r \in get_crate_versions(fs, remote, crate.name, MaxPrevious(cfg)[1],
                                       cfg.registry) :
             /\ log' = Append(log, Ev("tail_fetch", crate))
             /\ IF r.ok
                THEN /\ extra_crates' = extra_crates
                            \cup { Crate(crate.name, v) : v \in Range(r.versions) }
                     /\ i' = i + 1
                     /\ UNCHANGED status
                ELSE /\ status' = "aborted"
                     /\ UNCHANGED <<extra_crates, i>>
    /\ UNCHANGED <<cfg, remote, fs, pc, downloaded_crates, downloaded_indices,
                   crates, history>>

\* an end of the expansion that keeps the crates of the version lists only
AfterExpandLoopReplace ==
    /\ status = "running" /\ pc = "expand" /\ i > Len(crates)
    /\ crates' = SortedCrates(extra_crates)
    /\ pc' = "archive"
    /\ i' = 1
    /\ UNCHANGED <<cfg, remote, fs, status, downloaded_crates, downloaded_indices,
                   extra_crates, log, history>>

\* lines 298-301
AfterExpandLoop ==
    /\ status = "running" /\ pc = "expand" /\ i > Len(crates)
    /\ crates' = SortedCrates(Range(crates) \cup extra_crates)
    /\ pc' = "archive"
    /\ i' = 1
    /\ UNCHANGED <<cfg, remote, fs, status, downloaded_crates, downloaded_indices,
                   extra_crates, log, history>>

\* lines 303-309, one pass of the loop
ArchiveStep ==
    /\ status = "running" /\ pc = "archive" /\ i <= Len(crates)
    /\ LET crate == crates[i]
       IN  IF crate \in downloaded_crates
           THEN /\ log' = Append(log, Ev("notice", crate))
                /\ i' = i + 1
                /\ UNCHANGED <<fs, status>>
           ELSE \E r \in download_crate(remote, crate) :
                  IF ~r.ok
                  THEN /\ log' = Append(log, Ev("archive_fetch", crate))
                       /\ status' = "aborted"
                       /\ UNCHANGED <<fs, i>>
                  ELSE LET sv == save_crate(fs, crate, r.body, OutputDir)
                       IN  /\ fs' = sv.fs
                           /\ IF sv.ok
                              THEN /\ log' = log \o <<Ev("archive_fetch", crate),
                                                      Ev("archive_save", crate)>>
                                   /\ i' = i + 1
                                   /\ UNCHANGED status
                              ELSE /\ log' = Append(log, Ev("archive_fetch", crate))
                                   /\ status' = "aborted"
                                   /\ UNCHANGED i
    /\ UNCHANGED <<cfg, remote, pc, downloaded_crates, downloaded_indices,
                   crates, extra_crates, history>>

\* the end of async_main
Finish ==
    /\ status = "running" /\ pc = "archive" /\ i > Len(crates)
    /\ status' = "done"
    /\ UNCHANGED <<cfg, remote, fs, pc, downloaded_crates, downloaded_indices,
                   crates, extra_crates, i, log, history>>

\* main, run again with the same command line after the run has ended
Rerun ==
    /\ status \in {"done", "aborted"}
    /\ Len(history) + 1 < MaxRuns
    /\ history' = Append(history, [status |-> status, pc |-> pc, i |-> i,
                                   crates |-> crates, log |-> log])
    /\ pc' = "scan"
    /\ status' = "running"
    /\ downloaded_crates' = {}
    /\ downloaded_indices' = {}
    /\ crates' = <<>>
    /\ extra_crates' = {}
    /\ i' = 1
    /\ log' = <<>>
    /\ UNCHANGED <<cfg, remote, fs>>

Next ==
    \/ ScanCaches
    \/ LoadCrates
    \/ IndexStep
    \/ AfterIndexLoop
    \/ ExpandStep
    \/ AfterExpandLoop
    \/ ArchiveStep
    \/ Finish
    \/ Rerun

Spec == Init /\ [][Next]_vars

----------------------------------------------------------------------------
(* Properties                                                              *)

\* The positions of log whose event is one of kinds
At(l, kinds) == { k \in 1..Len(l) : l[k].ev \in kinds }

\* The crates of the events of log that are one of kinds, in order
CratesOf(l, kinds) ==
    LET sel == SelectSeq(l, LAMBDA e : e.ev \in kinds)
    IN  [k \in 1..Len(sel) |-> sel[k].crate]

Ascending(q) == \A j, k \in 1..Len(q) : j < k => KeyLess(q[j], q[k])

PreviousRun == history[Len(history)]

\* C1: when a run has completed and the program is run again with the same
\* command line, the second run fetches no archive and, once it completes,
\* has reported every crate of its list as already downloaded.
C1_Idempotent ==
    (history # <<>> /\ PreviousRun.status = "done")
        => /\ At(log, {"archive_fetch"}) = {}
           /\ status = "done" =>
                 \A c \in Range(crates) : c \in Range(CratesOf(log, {"notice"}))

\* C2: when a run is aborted in the archive loop, the archives it saved
\* before are in the archive cache, and the next run fetches none of them.
C2_Resumable ==
    /\ (status = "aborted" /\ pc = "archive")
           => \A c \in Range(CratesOf(log, {"archive_save"})) :
                  CratePath(c, OutputDir) \in FilesOf(fs)
    /\ (history # <<>> /\ PreviousRun.status = "aborted" /\ PreviousRun.pc = "archive")
           => \A c \in Range(CratesOf(PreviousRun.log, {"archive_save"})) :
                  c \notin Range(CratesOf(log, {"archive_fetch"}))

\* C3: after save_crate of a crate, the archive scan of the root contains
\* the crate with its name and its version, and the scan of a root that
\* holds nothing else contains that crate only.
C3_RoundTrip ==
    (log # <<>> /\ Last(log).ev = "archive_save")
        => /\ Last(log).crate \in get_downloaded_crates(fs, OutputDir)
           /\ get_downloaded_crates(
                  save_crate(EmptyFS, Last(log).crate, CrateBody(Last(log).crate),
                             OutputDir).fs, OutputDir) = {Last(log).crate}

\* C4: in a run the index of a name is fetched at most once, and once the
\* index loop has ended it was fetched exactly once for every name of the
\* list that had no index in the cache and never for a name that had one.
FetchesOfIndex(n) ==
    Cardinality({ k \in At(log, {"index_fetch"}) : log[k].crate.name = n })

C4_IndexOncePerName ==
    /\ \A k \in At(log, {"index_fetch"}) : FetchesOfIndex(log[k].crate.name) = 1
    /\ pc \in {"expand", "archive"} =>
          \A c \in Range(crates) :
              FetchesOfIndex(c.name) =
                  IF IndexDownloaded(downloaded_indices, c) THEN 0 ELSE 1

\* C5: in a run no index is fetched or saved after a version list or an
\* archive has been fetched.
C5_PhaseOrder ==
    \A j, k \in 1..Len(log) :
        (j < k /\ log[j].ev \in {"tail_fetch", "archive_fetch", "notice"})
            => log[k].ev \notin {"index_fetch", "index_save", "index_skip"}

\* a run that fetched and saved an index, then fetched a version list, then
\* fetched an archive
C5_Witness ==
    /\ At(log, {"index_save"}) # {}
    /\ At(log, {"tail_fetch"}) # {}
    /\ At(log, {"archive_save"}) # {}

\* C6: the archive loop handles the crates in strictly ascending order of
\* (name, version), the index loop likewise; each loop that has ended has
\* handled every crate of its set exactly once.
C6_SortedOrder ==
    /\ Ascending(CratesOf(log, {"archive_fetch", "notice"}))
    /\ Ascending(CratesOf(log, {"index_fetch", "index_skip"}))
    /\ pc \in {"expand", "archive"} =>
          LET done == CratesOf(log, {"index_fetch", "index_skip"})
          IN  /\ Range(done) = WantedCrates(cfg).crates
              /\ Len(done) = Cardinality(WantedCrates(cfg).crates)
    /\ status = "done" =>
          LET done == CratesOf(log, {"archive_fetch", "notice"})
              final == WantedCrates(cfg).crates \cup extra_crates
          IN  /\ Range(done) = final
              /\ Len(done) = Cardinality(final)

\* a completed run over three crates or more, some fetched and some already
\* downloaded, with two index fetches or more
C6_Witness ==
    /\ status = "done"
    /\ Len(crates) >= 3
    /\ At(log, {"archive_fetch"}) # {}
    /\ At(log, {"notice"}) # {}
    /\ Cardinality(At(log, {"index_fetch"})) >= 2

\* C7: an archive is fetched only for a crate of the list that the scan did
\* not find, a notice is printed only for one that it found, a completed
\* run has done one of the two for every crate of the list, and no archive
\* file that an earlier run saved is fetched or written again.
C7_CheckCacheBeforeFetch ==
    /\ \A k \in At(log, {"archive_fetch"}) :
          log[k].crate \in Range(crates) /\ log[k].crate \notin downloaded_crates
    /\ \A k \in At(log, {"notice"}) :
          log[k].crate \in Range(crates) /\ log[k].crate \in downloaded_crates
    /\ status = "done" =>
          \A c \in Range(crates) :
              IF c \in downloaded_crates
              THEN c \in Range(CratesOf(log, {"notice"}))
              ELSE c \in Range(CratesOf(log, {"archive_fetch"}))
    /\ \A r \in 1..Len(history) :
          \A c \in Range(CratesOf(history[r].log, {"archive_save"})) :
              \A d \in Range(CratesOf(log, {"archive_fetch"})) :
                  CratePath(d, OutputDir) # CratePath(c, OutputDir)

\* The scenario of C8: the lock document of foo 1.0.0, no expansion, both
\* caches empty at the scan, the run completed.
C8_Scenario ==
    /\ cfg.input = Some(DocFoo)
    /\ MaxPrevious(cfg) = None
    /\ downloaded_crates = {}
    /\ downloaded_indices = {}
    /\ history = <<>>
    /\ status = "done"

\* one index fetch, for foo; no version list fetch; one archive fetch, for
\* foo 1.0.0; the archive file is in the archive cache
C8_Fetches ==
    /\ CratesOf(log, {"index_fetch"}) = <<Crate(s_foo, v_100)>>
    /\ At(log, {"tail_fetch"}) = {}
    /\ CratesOf(log, {"archive_fetch"}) = <<Crate(s_foo, v_100)>>
    /\ (OutputDir \o <<s_foo, v_100, DOWNLOAD>>) \in FilesOf(fs)

\* C8 as amended: the scenario ends with one index fetch, no version list
\* fetch and one archive fetch, and with the files indexRoot/3/f/foo and
\* archiveRoot/foo/1.0.0/download.
C8_EndToEnd ==
    C8_Scenario =>
        /\ C8_Fetches
        /\ (IndexOutputDir \o <<<<"3">>, <<"f">>, s_foo>>) \in FilesOf(fs)

\* the scenario has been run to its end
C8_Witness == C8_Scenario /\ At(log, {"archive_save"}) # {}

\* C8 as stated: the scenario ends with the file indexRoot/1/foo.
C8_EndToEndStated ==
    C8_Scenario =>
        /\ C8_Fetches
        /\ (IndexOutputDir \o <<<<"1">>, s_foo>>) \in FilesOf(fs)

\* The registry has no index document for the name
IndexAbsent(name) ==
    IF cfg.registry = None
    THEN name \notin DOMAIN remote.index \/ remote.index[name] = None
    ELSE RegistryPath(name, cfg.registry[1]) \notin FilesOf(fs)

\* C9: with or without a local registry, the fetch of an index that the
\* registry does not have aborts the run: it is the last thing the run
\* did, and no index file of that name is saved.
C9_IndexNotFoundFatal ==
    \A k \in At(log, {"index_fetch"}) :
        IndexAbsent(log[k].crate.name)
            => /\ status = "aborted"
               /\ k = Len(log)
               /\ IndexPath(log[k].crate.name, IndexOutputDir) \notin FilesOf(fs)

\* C10: the fetch of an archive that the archive host does not have aborts
\* the run and writes no download file for the crate; the archives the run
\* saved before stay in the cache.
C10_ArchiveFetchFailedFatal ==
    /\ \A k \in At(log, {"archive_fetch"}) :
          log[k].crate \notin remote.crates
              => /\ status = "aborted"
                 /\ k = Len(log)
                 /\ log[k].crate \notin get_downloaded_crates(fs, OutputDir)
    /\ (status = "aborted" /\ pc = "archive")
          => \A j \in At(log, {"archive_save"}) :
                 /\ CratePath(log[j].crate, OutputDir) \in FilesOf(fs)
                 /\ fs.files[CratePath(log[j].crate, OutputDir)]
                        \in {CrateBody(log[j].crate), ErrorBody}

----------------------------------------------------------------------------
(* The end of the process in the middle of a run                           *)

\* What a file holds when the process ends after open(fpath, "w") or
\* open(fpath, "wb") has created or emptied it and before write has put
\* the whole of content there
Truncations(content) == { SubSeq(content, 1, n) : n \in 0..(Len(content) - 1) }

\* the process ends between two steps of async_main
Terminate ==
    /\ status = "running"
    /\ status' = "aborted"
    /\ UNCHANGED <<cfg, remote, fs, pc, downloaded_crates, downloaded_indices,
                   crates, extra_crates, i, log, history>>

\* lines 279-280 and 213-214: the process ends inside save_index, after
\* open and before the end of write
IndexStepTorn ==
    /\ status = "running" /\ IndexLoopRunning
    /\ LET crate == crates[i]
           odir == Join(IndexOutputDir, Index_dir(crate.name))
           fpath == Join(odir, crate.name)
       IN  /\ ~IndexDownloaded(downloaded_indices, crate)
           /\ MakedirsOk(fs, odir)
           /\ ~IsDirName(crate.name)
           /\ WriteOk(Makedirs(fs, odir), fpath)
           /\ \E r \in get_index(fs, remote, crate, cfg.registry) :
                /\ r.ok
                /\ \E part \in Truncations(r.body) :
                      fs' = WriteFile(Makedirs(fs, odir), fpath, part)
           /\ log' = log \o <<Ev("index_fetch", crate), Ev("index_torn", crate)>>
    /\ status' = "aborted"
    /\ UNCHANGED <<cfg, remote, pc, downloaded_crates, downloaded_indices,
                   crates, extra_crates, i, history>>

\* lines 308-309 and 205-206: the process ends inside save_crate, after
\* open and before the end of write
ArchiveStepTorn ==
    /\ status = "running" /\ pc = "archive" /\ i <= Len(crates)
    /\ LET crate == crates[i]
           odir == JoinAll(OutputDir, <<crate.name, crate.version>>)
           fpath == Join(odir, DOWNLOAD)
       IN  /\ crate \notin downloaded_crates
           /\ MakedirsOk(fs, odir)
           /\ WriteOk(Makedirs(fs, odir), fpath)
           /\ \E r \in download_crate(remote, crate) :
                /\ r.ok
                /\ \E part \in Truncations(r.body) :
                      fs' = WriteFile(Makedirs(fs, odir), fpath, part)
           /\ log' = log \o <<Ev("archive_fetch", crate), Ev("archive_torn", crate)>>
    /\ status' = "aborted"
    /\ UNCHANGED <<cfg, remote, pc, downloaded_crates, downloaded_indices,
                   crates, extra_crates, i, history>>

NextTermination ==
    \/ Next
    \/ Terminate
    \/ IndexStepTorn
    \/ ArchiveStepTorn

\* The runs of Spec, each of which may also be ended at any point
SpecTermination == Init /\ [][NextTermination]_vars

\* C11: wherever a run is ended, a scan of the caches reports no crate
\* whose download file was opened and not written to its end and no index
\* whose file was, and the next run, once completed, has fetched every
\* crate whose save the end of the run before it cut short.
C11_ConsistentUnderTermination ==
    /\ \A k \in At(log, {"archive_torn"}) :
          log[k].crate \notin get_downloaded_crates(fs, OutputDir)
    /\ \A k \in At(log, {"index_torn"}) :
          \A ix \in get_downloaded_indices(fs, IndexOutputDir) :
              ix.name # log[k].crate.name
    /\ (history # <<>> /\ status = "done")
          => \A c \in Range(CratesOf(PreviousRun.log, {"archive_torn"})) :
                 c \in Range(CratesOf(log, {"archive_fetch"}))

----------------------------------------------------------------------------
(* Parse errors                                                            *)

\* C12: when the lock file of the command line does not parse, no step of
\* any run changes a file, no index, version list or archive is fetched,
\* and the run ends before the index loop without completing.
C12_ParseErrorPersistsNothing ==
    [][(cfg.input # None /\ ~parse_cargo_lock(cfg.input[1]).ok)
          => /\ fs'.files = fs.files
             /\ log' = <<>>
             /\ pc' \in {"scan", "load"}
             /\ status' # "done"]_vars

\* a run over a cache that holds files has been aborted by the parser
C12_Witness ==
    /\ cfg.input # None
    /\ ~parse_cargo_lock(cfg.input[1]).ok
    /\ status = "aborted"
    /\ pc = "load"
    /\ FilesOf(fs) # {}

----------------------------------------------------------------------------
(* The parser over lock documents                                          *)

\* The longest dependencies list of the records below
MaxDeps == 1

\* The sequences over S of length n at most
RECURSIVE SeqsUpTo(_, _)
SeqsUpTo(S, n) ==
    IF n = 0 THEN {<<>>}
    ELSE LET shorter == SeqsUpTo(S, n - 1)
         IN  shorter \cup { Append(q, x) : q \in shorter, x \in S }

\* Dependency strings: a name, a name and a version, the old format with
\* the source in brackets, and strings with spaces in other places
DepStrings ==
    { s_a,
      s_a \o <<" ">> \o v_10,
      s_ab \o <<" ">> \o v_10,
      s_a \o <<" ">> \o v_10 \o <<" ", "(">> \o src_registry \o <<")">>,
      s_a \o <<" ">>,
      s_a \o <<" ", " ">> \o v_20,
      <<" ">> \o s_a,
      <<>> }

\* The source field: absent, empty, git, registry, and one that starts
\* with git and not with git+
Sources == {None, Some(<<>>), Some(src_git), Some(src_registry), Some(<<"g", "i", "t">>)}

ParserRecords ==
    { Record(Some(n), Some(v_10), src, deps) :
        n \in {s_a, s_ab}, src \in Sources, deps \in SeqsUpTo(DepStrings, MaxDeps) }

\* The record that stands before or after one of ParserRecords
OtherRecords ==
    { Record(Some(s_a), Some(v_10), Some(src_registry), <<>>),
      Record(Some(s_a), Some(v_20), Some(src_registry), <<>>),
      Record(Some(s_ab), Some(v_20), Some(src_registry), <<s_a \o <<" ">> \o v_10>>),
      Record(Some(s_a), Some(v_20), Some(src_git), <<<<" ">> \o s_a>>),
      Record(None, Some(v_10), None, <<>>),
      Record(Some(s_ab), None, Some(src_registry), <<>>) }

ParserDocs ==
    {DocNoPackage}
    \cup { Doc(<<r>>) : r \in ParserRecords }
    \cup { Doc(<<r, o>>) : r \in ParserRecords, o \in OtherRecords }
    \cup { Doc(<<o, r>>) : r \in ParserRecords, o \in OtherRecords }

\* a run with --input on one of the documents, empty caches
InitParser ==
    /\ \E d \in ParserDocs :
          cfg = [input |-> Some(d), name |-> None, version |-> None,
                 all |-> FALSE, max_previous |-> None, registry |-> None]
    /\ remote = RemoteFull
    /\ fs = EmptyFS
    /\ pc = "scan"
    /\ status = "running"
    /\ downloaded_crates = {}
    /\ downloaded_indices = {}
    /\ crates = <<>>
    /\ extra_crates = {}
    /\ i = 1
    /\ log = <<>>
    /\ history = <<>>

\* lines 244-272
NextParser ==
    \/ ScanCaches
    \/ LoadCrates

\* The runs up to the end of the parse, over the documents of ParserDocs
SpecParser == InitParser /\ [][NextParser]_vars

\* The records of the lock document of the command line that have a name
\* and a version
NamedRecords ==
    IF cfg.input = None \/ cfg.input[1].package = None THEN {}
    ELSE { r \in Range(cfg.input[1].package[1]) : r.name # None /\ r.version # None }

\* no source field, an empty one, or one that starts with git+
Excluded(rec) ==
    \/ rec.source = None
    \/ rec.source[1] = <<>>
    \/ /\ Len(rec.source[1]) >= 4
       /\ SubSeq(rec.source[1], 1, 4) = <<"g", "i", "t", "+">>

OwnPackage(rec) == Crate(rec.name[1], rec.version[1])

\* The position of the first space of d, 0 when it has none
FirstSpace(d) ==
    IF \E k \in 1..Len(d) : d[k] = " "
    THEN CHOOSE k \in 1..Len(d) : d[k] = " " /\ \A j \in 1..(k - 1) : d[j] # " "
    ELSE 0

\* d up to its first space, and d after it
BeforeSpace(d) == IF FirstSpace(d) = 0 THEN d ELSE SubSeq(d, 1, FirstSpace(d) - 1)
AfterSpace(d) == SubSeq(d, FirstSpace(d) + 1, Len(d))

\* The dependency strings of the records that are not excluded
SurvivingDeps ==
    UNION { Range(r.dependencies) : r \in { x \in NamedRecords : ~Excluded(x) } }

\* The lock document has been parsed
Parsed == cfg.input # None /\ status = "running" /\ pc = "index"

\* C13: once the lock document is parsed, the list holds the (name,
\* version) of every record that is not excluded, and it holds the (name,
\* version) of an excluded record only when a record that is not excluded
\* has the same (name, version) or has a dependency string made of that
\* name, a space and that version, alone or followed by a space and more.
C13_SourceFilter ==
    Parsed =>
        \A r \in NamedRecords :
            IF ~Excluded(r) THEN OwnPackage(r) \in Range(crates)
            ELSE OwnPackage(r) \in Range(crates)
                   => \/ \E x \in NamedRecords :
                            ~Excluded(x) /\ OwnPackage(x) = OwnPackage(r)
                      \/ \E d \in SurvivingDeps :
                            /\ FirstSpace(d) # 0
                            /\ BeforeSpace(d) = r.name[1]
                            /\ BeforeSpace(AfterSpace(d)) = r.version[1]

\* a parsed document with a git record whose (name, version) is in the
\* list and is the (name, version) of no record that is not excluded
C13_Witness ==
    /\ Parsed
    /\ \E r \in NamedRecords :
          /\ r.source = Some(src_git)
          /\ OwnPackage(r) \in Range(crates)
          /\ \A x \in NamedRecords : ~Excluded(x) => OwnPackage(x) # OwnPackage(r)

\* The (name, version) of the records that are not excluded
OwnPackages == { OwnPackage(r) : r \in { x \in NamedRecords : ~Excluded(x) } }

\* C14 as amended: a dependency string of a record that is not excluded is
\* split at every space; the part before the first space is the name; a
\* string with a space adds exactly the crate of that name whose version
\* is the second part, the text between the first space and the next one
\* (or the end of the string); a string without a space adds nothing.  The
\* list is the crates of the records and the crates added so.
C14_DependencySplit ==
    Parsed =>
        Range(crates) =
            OwnPackages
            \cup { Crate(BeforeSpace(d), BeforeSpace(AfterSpace(d))) :
                     d \in { x \in SurvivingDeps : FirstSpace(x) # 0 } }

\* a parsed document with a dependency string of three parts, such as
\* "a 1.0 (registry+x)", whose crate only that string adds
C14_Witness ==
    /\ Parsed
    /\ \E d \in SurvivingDeps :
          /\ FirstSpace(d) # 0
          /\ FirstSpace(AfterSpace(d)) # 0
          /\ BeforeSpace(AfterSpace(d)) = v_10
          /\ Crate(BeforeSpace(d), v_10) \in Range(crates)
          /\ Crate(BeforeSpace(d), v_10) \notin OwnPackages

\* C14 as stated: the string is split at its first space only, and the
\* version is all that follows that space.
C14_DependencySplitStated ==
    Parsed =>
        Range(crates) =
            OwnPackages
            \cup { Crate(BeforeSpace(d), AfterSpace(d)) :
                     d \in { x \in SurvivingDeps : FirstSpace(x) # 0 } }

\* d is one token that is not a space, alone or followed by a space and
\* more that is not spaces only
WellFormedDep(d) ==
    /\ d # <<>>
    /\ d[1] # " "
    /\ FirstSpace(d) # 0 => \E k \in (FirstSpace(d) + 1)..Len(d) : d[k] # " "

\* C15: a lock document is parsed only when every dependency string of
\* its records that are not excluded is well formed, and then no crate of
\* the list has an empty name or an empty version.
C15_MalformedDependencySpec ==
    Parsed =>
        /\ \A d \in SurvivingDeps : WellFormedDep(d)
        /\ \A c \in Range(crates) : c.name # <<>> /\ c.version # <<>>

----------------------------------------------------------------------------
(* The directory layout over names                                         *)

\* The longest name of LayoutNames that is made of NameAlphabet
MaxNameLen == 5

NameAlphabet == {"a", "b", "/"}

\* The names of the command line: every string over NameAlphabet, the
\* empty one too, and three crate names
LayoutNames ==
    SeqsUpTo(NameAlphabet, MaxNameLen)
    \cup { <<"a", "b", "c">>, <<"a", "b", "c", "d">>, <<"s", "e", "r", "d", "e">> }

\* The registry has documents for crate names only
ValidName(n) == n # <<>> /\ \A k \in 1..Len(n) : n[k] # "/"

\* The registry and the archive host of one name
RemoteOf(n, body) ==
    [index |-> (n :> IF ValidName(n) THEN Some(body) ELSE None),
     crates |-> IF ValidName(n) THEN {Crate(n, v_10)} ELSE {}]

\* a run with --name and --version, with and without --max-previous and
\* --registry, empty caches
InitLayout ==
    /\ \E n \in LayoutNames, mp \in {None, Some(1)}, r \in {None, Some(RegistryDir)},
          body \in {IndexBody(<<v_10>>), IndexBodyCRLF(<<v_05, v_10>>)} :
          /\ cfg = [input |-> None, name |-> Some(n), version |-> Some(v_10),
                    all |-> FALSE, max_previous |-> mp, registry |-> r]
          /\ remote = RemoteOf(n, body)
          /\ fs = IF r = None THEN EmptyFS ELSE MirrorOf(remote, EmptyFS)
    /\ pc = "scan"
    /\ status = "running"
    /\ downloaded_crates = {}
    /\ downloaded_indices = {}
    /\ crates = <<>>
    /\ extra_crates = {}
    /\ i = 1
    /\ log = <<>>
    /\ history = <<>>

\* async_main, once
NextOnce ==
    \/ ScanCaches
    \/ LoadCrates
    \/ IndexStep
    \/ AfterIndexLoop
    \/ ExpandStep
    \/ AfterExpandLoop
    \/ ArchiveStep
    \/ Finish

\* One run for every name of LayoutNames
SpecLayout == InitLayout /\ [][NextOnce]_vars

\* The directories of a name that is not empty, as the registry lays
\* them out
ShardOf(name) ==
    IF Len(name) = 1 THEN << <<"1">> >>
    ELSE IF Len(name) = 2 THEN << <<"2">> >>
    ELSE IF Len(name) = 3 THEN << <<"3">>, <<name[1]>> >>
    ELSE << <<name[1], name[2]>>, <<name[3], name[4]>> >>

\* C16: get_directory gives a name of length 1 or 2 its length, one of
\* length 3 "3" and its first character, a longer one its characters 1-2
\* and 3-4 ("a", "ab", "abc", "abcd" and "serde" as the claim lists them);
\* the file that the index fetch and the version list fetch of a local
\* registry read and the file that save_index writes are both the root
\* joined with these directories and the name.
C16_ShardPath ==
    /\ get_directory(<<"a">>) = << <<"1">> >>
    /\ get_directory(<<"a", "b">>) = << <<"2">> >>
    /\ get_directory(<<"a", "b", "c">>) = << <<"3">>, <<"a">> >>
    /\ get_directory(<<"a", "b", "c", "d">>) = << <<"a", "b">>, <<"c", "d">> >>
    /\ get_directory(<<"s", "e", "r", "d", "e">>) = << <<"s", "e">>, <<"r", "d">> >>
    /\ (cfg.name # None /\ cfg.name[1] # <<>>) =>
          LET n == cfg.name[1]
          IN  /\ get_directory(n) = ShardOf(n)
              /\ RegistryPath(n, RegistryDir)
                    = JoinAll(RegistryDir, ShardOf(n) \o <<n>>)
              /\ IndexPath(n, IndexOutputDir)
                    = JoinAll(IndexOutputDir, ShardOf(n) \o <<n>>)
              /\ At(log, {"index_save"}) # {} =>
                    /\ JoinAll(IndexOutputDir, ShardOf(n) \o <<n>>) \in FilesOf(fs)
                    /\ cfg.registry # None =>
                          JoinAll(RegistryDir, ShardOf(n) \o <<n>>) \in FilesOf(fs)

\* a completed run for serde that read the index and the version list
\* from a local registry and saved the index
C16_Witness ==
    /\ cfg.name = Some(<<"s", "e", "r", "d", "e">>)
    /\ cfg.registry # None
    /\ status = "done"
    /\ At(log, {"index_save"}) # {}
    /\ At(log, {"tail_fetch"}) # {}

\* C17: no run fetches or saves an index, or fetches a version list, for
\* the empty name.
C17_EmptyNameRejected ==
    cfg.name = Some(<<>>) =>
        At(log, {"index_fetch", "index_save", "tail_fetch"}) = {}

\* What the registry of the run serves for the index of a name
Served(n) ==
    IF cfg.registry # None THEN TextRead(fs.files[RegistryPath(n, cfg.registry[1])])
    ELSE IF n \in DOMAIN remote.index /\ remote.index[n] # None
         THEN remote.index[n][1]
         ELSE ErrorBody

\* C19: when save_index has saved the document of a name that is not
\* empty, get_index of that name with the index output directory as the
\* local registry returns the content that was saved, and the scan of the
\* index output directory has an index of that name.
C19_IndexCacheAsMirror ==
    (log # <<>> /\ Last(log).ev = "index_save" /\ Last(log).crate.name # <<>>) =>
        /\ get_index(fs, remote, Last(log).crate, Some(IndexOutputDir))
              = {Returned(Served(Last(log).crate.name))}
        /\ \E ix \in get_downloaded_indices(fs, IndexOutputDir) :
              ix.name = Last(log).crate.name

----------------------------------------------------------------------------
(* The version tail                                                        *)

\* The longest index document and the largest --max-previous
MaxLines == 5
MaxCount == 3

\* The versions of the lines of the index document of foo
TailVersions == {v_10, v_20}

\* a run for foo 1.0.0 with --max-previous or --all, with and without
\* --registry, over every index document of MaxLines lines at most
InitTail ==
    /\ \E q \in SeqsUpTo(TailVersions, MaxLines),
          body \in {"LF", "CRLF"},
          e \in { [all |-> TRUE, max_previous |-> None] }
                  \cup { [all |-> FALSE, max_previous |-> Some(n)] : n \in 1..MaxCount },
          r \in {None, Some(RegistryDir)} :
          /\ cfg = [input |-> None, name |-> Some(s_foo), version |-> Some(v_100),
                    all |-> e.all, max_previous |-> e.max_previous, registry |-> r]
          /\ remote = [index |-> (s_foo :> Some(IF body = "LF" THEN IndexBody(q)
                                                 ELSE IndexBodyCRLF(q))),
                       crates |-> { Crate(s_foo, v) : v \in TailVersions \cup {v_100} }]
          /\ fs = IF r = None THEN EmptyFS ELSE MirrorOf(remote, EmptyFS)
    /\ pc = "scan"
    /\ status = "running"
    /\ downloaded_crates = {}
    /\ downloaded_indices = {}
    /\ crates = <<>>
    /\ extra_crates = {}
    /\ i = 1
    /\ log = <<>>
    /\ history = <<>>

\* One run for every index document of foo
SpecTail == InitTail /\ [][NextOnce]_vars

\* The vers fields of the lines of the index document of foo, in order
TailDoc ==
    LET body == remote.index[s_foo][1]
    IN  [k \in 1..Len(body) |-> body[k].data]

\* The last min(n, L) of the L entries of TailDoc, in order
ExpectedTail(n) ==
    LET L == Len(TailDoc)
        m == IF n < L THEN n ELSE L
    IN  [k \in 1..m |-> TailDoc[L - m + k]]

\* C18: with maxCount n, with --registry and without it, a version list
\* fetch that does not fail returns the vers fields of the last min(n, L)
\* lines of the document in their order, and the expansion adds the crates
\* of foo with these versions and no other.
C18_VersionTail ==
    (cfg.name = Some(s_foo) /\ MaxPrevious(cfg) # None) =>
        LET n == MaxPrevious(cfg)[1]
            tail == { Crate(s_foo, v) : v \in Range(ExpectedTail(n)) }
        IN  /\ n >= 1
            /\ \A r \in get_crate_versions(fs, remote, s_foo, n, cfg.registry) :
                  r.ok => r.versions = ExpectedTail(n)
            /\ ((pc = "expand" /\ i > 1) \/ pc = "archive") => extra_crates = tail
            /\ pc = "archive" => Range(crates) = {Crate(s_foo, v_100)} \cup tail

\* a completed run with --max-previous 2 over a document of five lines
\* whose last two lines are of two versions
C18_Witness ==
    /\ cfg.name = Some(s_foo)
    /\ MaxPrevious(cfg) = Some(2)
    /\ Len(TailDoc) = 5
    /\ TailDoc[4] # TailDoc[5]
    /\ status = "done"
    /\ Cardinality(extra_crates) = 2

----------------------------------------------------------------------------
(* The expansion                                                           *)

\* C20: with every expansion option, the list of the archive loop holds
\* every crate of the command line, every other crate of the list has the
\* name of one of those, and a completed run has fetched every crate of
\* the command line or reported it as already downloaded.
C20_ExpansionOnlyAdds ==
    LET wanted == WantedCrates(cfg).crates
    IN  /\ pc = "archive" =>
              /\ wanted \subseteq Range(crates)
              /\ \A c \in Range(crates) \ wanted : \E w \in wanted : w.name = c.name
        /\ status = "done" =>
              \A w \in wanted : w \in Range(CratesOf(log, {"archive_fetch", "notice"}))

\* a completed run with an expansion that added a crate and whose version
\* lists did not hold one of the crates of the command line
C20_Witness ==
    /\ cfg.input = Some(DocDeps)
    /\ MaxPrevious(cfg) = Some(1)
    /\ status = "done"
    /\ extra_crates \ WantedCrates(cfg).crates # {}
    /\ WantedCrates(cfg).crates \ extra_crates # {}

====
